---------------------------- MODULE Spec2Model ----------------------------
(***************************************************************************)
(* A model of the OpenStreetMap wrangling scripts: the two data cleaning   *)
(* functions (clean_url, clean_phone_number), shape_element, and the       *)
(* streaming pipeline process_map / get_element of write_csv.py.           *)
(*                                                                         *)
(* A Python str is a sequence of one-character strings, so that `in`,      *)
(* slicing, replace and split are computed, not assumed.  The Python value *)
(* None is NoneVal, a sequence no str equals.                              *)
(***************************************************************************)
EXTENDS Integers, Sequences, FiniteSets, TLC

VARIABLES
    \* process_map / get_element
    validate,      \* the validate argument of process_map
    pc,            \* where the run of process_map stands
    parsed,        \* the top-level elements whose end event was delivered, in order
    root,          \* the closed top-level elements still held under the root element
    cur,           \* the element yielded to the loop body
    tables,        \* the rows written to the five csv files
    err,           \* why the run aborted
    \* shape_element on one element
    el,            \* the element handed to shape_element
    shaped,        \* what shape_element returned
    \* clean_phone_number applied once and twice
    phone_number,  \* the argument
    cleaned,       \* clean_phone_number(phone_number)
    recleaned,     \* clean_phone_number(cleaned)
    \* clean_url
    url,           \* the argument
    better_url     \* clean_url(url)

vars == <<validate, pc, parsed, root, cur, tables, err, el, shaped,
          phone_number, cleaned, recleaned, url, better_url>>

pipelineVars == <<validate, pc, parsed, root, cur, tables, err>>
shapeVars == <<el, shaped>>
phoneVars == <<phone_number, cleaned, recleaned>>
urlVars == <<url, better_url>>

-----------------------------------------------------------------------------
(* Bounds of the model *)

\* how many top-level elements a document holds
MaxElems == 3
\* how many tag children the element given to shape_element holds
MaxTags == 2
\* how many nd children a way holds
MaxNds == 2
\* how long a generated tag key is
MaxKeyLen == 3
\* how many fragments a phone number argument is made of
MaxPhoneFrags == 4
\* how many fragments a url argument is made of
MaxUrlFrags == 3

-----------------------------------------------------------------------------
(* Python values and str operations *)

\* None
NoneVal == <<"None">>

\* what a call came to: a returned str, a returned None, a raised exception
Returned(v) == [kind |-> "value", val |-> v]
ReturnedNone == [kind |-> "none", val |-> <<>>]
Raised == [kind |-> "raise", val |-> <<>>]
Pending == [kind |-> "pending", val |-> <<>>]

Min(a, b) == IF a < b THEN a ELSE b

\* s[:n]
Take(s, n) == SubSeq(s, 1, Min(n, Len(s)))

\* s[n:]
Drop(s, n) == SubSeq(s, Min(n, Len(s)) + 1, Len(s))

\* s.startswith(sub)
StartsWith(s, sub) == Len(sub) <= Len(s) /\ SubSeq(s, 1, Len(sub)) = sub

\* sub in s
Contains(s, sub) ==
    \E i \in 0..(Len(s) - Len(sub)) : SubSeq(s, i + 1, i + Len(sub)) = sub

\* s.replace(old, new): every occurrence, left to right, not overlapping
RECURSIVE ReplaceAll(_, _, _)
ReplaceAll(s, old, new) ==
    IF Len(s) = 0 THEN <<>>
    ELSE IF StartsWith(s, old) THEN new \o ReplaceAll(Drop(s, Len(old)), old, new)
    ELSE <<Head(s)>> \o ReplaceAll(Tail(s), old, new)

\* s.replace(old, new, 1): the first occurrence only
RECURSIVE ReplaceFirst(_, _, _)
ReplaceFirst(s, old, new) ==
    IF Len(s) = 0 THEN <<>>
    ELSE IF StartsWith(s, old) THEN new \o Drop(s, Len(old))
    ELSE <<Head(s)>> \o ReplaceFirst(Tail(s), old, new)

\* the concatenation of a sequence of strs
RECURSIVE Concat(_)
Concat(parts) ==
    IF Len(parts) = 0 THEN <<>> ELSE Head(parts) \o Concat(Tail(parts))

\* the sequences of at most n members of S
SeqsUpTo(S, n) == UNION {[1..k -> S] : k \in 0..n}

-----------------------------------------------------------------------------
(* clean_url *)

WWW == <<"w", "w", "w", ".">>
HTTP == <<"h", "t", "t", "p", ":", "/", "/">>

\* a clean_url that returns the url on both paths
clean_url_returns_always(u) ==
    LET withWww == IF ~Contains(u, WWW) THEN WWW \o u ELSE u
    IN  IF ~Contains(withWww, HTTP) THEN Returned(HTTP \o withWww)
        ELSE Returned(withWww)

\* write_csv.py: clean_url
clean_url(u) ==
    LET withWww == IF ~Contains(u, WWW) THEN WWW \o u ELSE u
    IN  IF ~Contains(withWww, HTTP) THEN Returned(HTTP \o withWww)
        ELSE ReturnedNone

\* the pieces url arguments are made of: the two searched strs, their
\* proper parts (so that an occurrence can straddle a prepended prefix) and
\* ordinary text
UrlFrags ==
    { HTTP, WWW,
      <<"h">>, <<"t", "t", "p", ":", "/", "/">>, <<"h", "t", "t", "p">>, <<":", "/", "/">>,
      <<"w">>, <<"w", "w", ".">>, <<".">>,
      <<"e", "x">>, <<".", "c", "o", "m">>, <<"h", "t", "t", "p", "s", ":", "/", "/">> }

\* an url with neither "www." nor "http://"
EX_COM == <<"e", "x", ".", "c", "o", "m">>

-----------------------------------------------------------------------------
(* clean_phone_number *)

DigitChar == <<"0", "1", "2", "3", "4", "5", "6", "7", "8", "9">>
Digits == {DigitChar[i] : i \in 1..Len(DigitChar)}
SPACE == <<" ">>
MINUS == <<"-">>

\* the decimal writing of a positive number
RECURSIVE Dec(_)
Dec(n) == IF n < 10 THEN <<DigitChar[n + 1]>> ELSE Dec(n \div 10) \o <<DigitChar[(n % 10) + 1]>>

\* the prefix tables, each entry written as in the source
prefixes_fixed ==
    {Dec(n) \o SPACE : n \in
        {9131, 9135, 911, 9133, 320, 700, 800, 900, 1511, 1512, 1514,
         1515, 1517, 160, 170, 171, 175, 1520, 1522, 1523, 1525, 162,
         172, 173, 174, 1570, 1573, 1575, 1577, 1578, 163, 177, 178,
         1590, 176, 179, 1516, 180}}

prefixes_4_digits ==
    {<<"0">> \o Dec(n) : n \in
        {911, 320, 700, 800, 900, 160, 170, 171, 175, 162, 172, 173,
         174, 163, 177, 178, 176, 179, 180}}

prefixes_5_digits ==
    {<<"0">> \o Dec(n) : n \in
        {9131, 9135, 9133, 1511, 1512, 1514, 1515, 1517, 1520, 1522,
         1523, 1525, 1570, 1573, 1575, 1577, 1578, 1590, 1516, 9128}}

prefixes_international_3_digits ==
    {Dec(n) : n \in
        {911, 951, 320, 700, 800, 900, 160, 170, 171, 175, 162,
         172, 173, 174, 163, 177, 178, 176, 179, 180}}

\* "9132" "1511" has no comma between the two literals: one entry, 91321511
prefixes_international_4_digits ==
    {Dec(n) : n \in
        {9131, 9135, 9133, 91321511, 1512, 1514, 1515, 1517, 1520,
         1522, 1523, 1525, 1570, 1573, 1575, 1577, 1578, 1590, 1516,
         9128}}

\* any(code in s for code in table)
AnyIn(table, s) == \E code \in table : Contains(s, code)

\* \s of the characters the model writes: the space and the tab
IsWhitespace(c) == c \in {" ", "\t"}

\* re.compile(r"[^\d\s+\s-]").sub(" ", s): every character that is no digit,
\* whitespace, plus or minus becomes a space
non_decimal_sub(s) ==
    [i \in 1..Len(s) |->
        IF s[i] \in Digits \/ IsWhitespace(s[i]) \/ s[i] \in {"+", "-"}
        THEN s[i] ELSE " "]

\* re.sub(' +', ' ', s): a run of spaces becomes one space
RECURSIVE collapse_spaces(_)
collapse_spaces(s) ==
    IF Len(s) = 0 THEN <<>>
    ELSE IF Len(s) >= 2 /\ s[1] = " " /\ s[2] = " " THEN collapse_spaces(Tail(s))
    ELSE <<Head(s)>> \o collapse_spaces(Tail(s))

\* phone_numbers_re2.search(s): ^([+0-9]{3}|[0-9]{3,5})-
phone_numbers_re2(s) ==
    \/ /\ Len(s) >= 4
       /\ \A i \in 1..3 : s[i] \in Digits \cup {"+"}
       /\ s[4] = "-"
    \/ \E n \in 3..5 :
        /\ Len(s) >= n + 1
        /\ \A i \in 1..n : s[i] \in Digits
        /\ s[n + 1] = "-"

\* lines 299-302: a minus sign after the area code becomes a space
minus_to_space(s) ==
    IF phone_numbers_re2(s) THEN ReplaceFirst(s, MINUS, SPACE) ELSE s

\* lines 306-307: phone_number[0] of an empty str raises IndexError
strip_leading_space(s) ==
    IF Len(s) = 0 THEN Raised
    ELSE IF s[1] = " " THEN Returned(ReplaceFirst(s, SPACE, <<>>))
    ELSE Returned(s)

\* lines 292-307: the cleaning before the prefix tables
clean_steps_1_to_4(p) ==
    strip_leading_space(minus_to_space(collapse_spaces(non_decimal_sub(p))))

\* line 330: a space after the country code
insert_after_country_code(s) == Take(s, 3) \o SPACE \o Drop(s, 3)

\* lines 331-332
insert_international_3(s) ==
    IF AnyIn(prefixes_international_3_digits, s)
    THEN Take(s, 7) \o SPACE \o Drop(s, 7) ELSE s

\* lines 333-334
insert_international_4(s) ==
    IF AnyIn(prefixes_international_4_digits, s)
    THEN Take(s, 8) \o SPACE \o Drop(s, 8) ELSE s

\* lines 329-334: the branch of a number that starts with "+"; phone_number[0]
\* of an empty str raises IndexError
insert_international(s) ==
    IF Len(s) = 0 THEN Raised
    ELSE IF s[1] = "+"
    THEN Returned(insert_international_4(insert_international_3(
                    insert_after_country_code(s))))
    ELSE Returned(s)

\* lines 336-339: the national tables, tried on every number
insert_national(s) ==
    IF AnyIn(prefixes_4_digits, s) THEN Take(s, 4) \o SPACE \o Drop(s, 4)
    ELSE IF AnyIn(prefixes_5_digits, s) THEN Take(s, 5) \o SPACE \o Drop(s, 5)
    ELSE s

\* lines 340-341
replace_0049(s) ==
    IF Contains(s, <<"0", "0", "4", "9">>)
    THEN ReplaceAll(s, <<"0", "0", "4", "9">>, <<"+", "4", "9", " ">>)
    ELSE s

\* lines 342-343
drop_minus_after_space(s) ==
    IF Contains(s, <<" ", "-">>) THEN ReplaceFirst(s, MINUS, <<>>) ELSE s

\* lines 336-345, after the "+" branch
insert_rest(r) ==
    IF r.kind = "raise" THEN Raised
    ELSE Returned(drop_minus_after_space(replace_0049(insert_national(r.val))))

\* lines 324-345: the prefix tables; the return sits inside `if phone_number:`
clean_step_5(s) ==
    IF Len(s) = 0 THEN ReturnedNone
    ELSE IF AnyIn(prefixes_fixed, s) THEN Returned(s)
    ELSE insert_rest(insert_international(ReplaceAll(s, SPACE, <<>>)))

\* lines 324-345, reached unless line 306 raised
clean_after_step_4(r) ==
    IF r.kind = "raise" THEN Raised ELSE clean_step_5(r.val)

\* write_csv.py: clean_phone_number
clean_phone_number(p) == clean_after_step_4(clean_steps_1_to_4(p))

\* the pieces phone number arguments are made of
PhoneFrags ==
    { <<"0", "9", "1", "1">>, <<"0", "9", "1", "3", "1">>, <<"+", "4", "9">>,
      <<"0", "0", "4", "9">>, <<"9", "1", "1">>, <<"9", "1", "3", "1">>,
      <<"1", "2", "3">>, <<"5">>, <<" ">>, <<"-">>, <<"a">>, <<"\t">> }

-----------------------------------------------------------------------------
(* shape_element *)

COLON == <<":">>
URL_KEY == <<"u", "r", "l">>
REGULAR == <<"r", "e", "g", "u", "l", "a", "r">>

\* PROBLEMCHARS = re.compile(r'[=\+/&<>;\'"\?%#$@\,\. \t\r\n]')
PROBLEMCHARS ==
    {"=", "+", "/", "&", "<", ">", ";", "'", "\"", "?", "%", "#", "$", "@",
     ",", ".", " ", "\t", "\r", "\n"}

\* re.search(PROBLEMCHARS, k)
problem_chars_search(k) == \E i \in 1..Len(k) : k[i] \in PROBLEMCHARS

NODE_FIELDS == <<"id", "lat", "lon", "user", "uid", "version", "changeset", "timestamp">>
NODE_TAGS_FIELDS == <<"id", "key", "value", "type">>
WAY_FIELDS == <<"id", "user", "uid", "version", "changeset", "timestamp">>
WAY_TAGS_FIELDS == <<"id", "key", "value", "type">>
WAY_NODES_FIELDS == <<"id", "node_id", "position">>

\* k.split(':')[0]: the text before the first colon, all of k without one
RECURSIVE split_colon_first(_)
split_colon_first(k) ==
    IF Len(k) = 0 \/ Head(k) = ":" THEN <<>>
    ELSE <<Head(k)>> \o split_colon_first(Tail(k))

\* what a name is bound to after  name = f(..)  when f returned: its str, or None
Bound(r) == IF r.kind = "none" THEN NoneVal ELSE r.val

\* lines 227-232: the row of a tag, its key decided before
tag_row(id, tg, key) ==
    [id |-> id, key |-> key, value |-> tg.v,
     type |-> IF ~Contains(tg.k, COLON) THEN REGULAR ELSE split_colon_first(tg.k)]

\* lines 225-226 and 234: a key with a problem character does `pass`, and the
\* row is appended all the same
append_row(tg, row) ==
    IF problem_chars_search(tg.k) THEN Returned(row) ELSE Returned(row)

\* lines 221-222: the key of a tag whose k is the id of the element is what
\* clean_phone_number made of its value, unless that call raised
row_with_phone_key(id, tg, phone) ==
    IF phone.kind = "raise" THEN Raised
    ELSE append_row(tg, tag_row(id, tg, Bound(phone)))

\* lines 217-234, one turn of the loop over the tag children: the row
\* appended to tags, or the exception clean_phone_number raised
shape_tag(elem, tg) ==
    LET \* lines 219-220: the key of a tag 'url'; lines 221-224 assign key again
        key_url == IF tg.k = URL_KEY THEN Bound(clean_url(tg.v)) ELSE NoneVal
    IN  IF tg.k = elem.attrib.id
        THEN row_with_phone_key(elem.attrib.id, tg, clean_phone_number(tg.v))
        ELSE append_row(tg, tag_row(elem.attrib.id, tg, tg.k))

RECURSIVE shape_tags(_, _, _)

\* line 234: tags.append, and on to the next tag; an exception ends the loop
next_tag(elem, rest, rows, r) ==
    IF r.kind = "raise" THEN Raised
    ELSE shape_tags(elem, rest, Append(rows, r.val))

\* lines 216-234: the loop over element.iter('tag')
shape_tags(elem, tgs, rows) ==
    IF Len(tgs) = 0 THEN Returned(rows)
    ELSE next_tag(elem, Tail(tgs), rows, shape_tag(elem, Head(tgs)))

\* lines 198-214: the attributes copied, as they are
copy_attribs(elem, fields) ==
    [f \in {fields[i] : i \in 1..Len(fields)} |-> elem.attrib[f]]

\* lines 236-239: the dict returned; None for an element that is no node or way
shaped_dict(elem, tags, way_nodes) ==
    IF tags.kind = "raise" THEN [kind |-> "raise"]
    ELSE IF elem.tag = "node"
    THEN [kind |-> "node", node |-> copy_attribs(elem, NODE_FIELDS),
          node_tags |-> tags.val]
    ELSE IF elem.tag = "way"
    THEN [kind |-> "way", way |-> copy_attribs(elem, WAY_FIELDS),
          way_nodes |-> way_nodes, way_tags |-> tags.val]
    ELSE [kind |-> "none"]

\* write_csv.py: shape_element; way_nodes = [] (line 194) is never appended to
shape_element(elem) ==
    shaped_dict(elem, shape_tags(elem, elem.tags, <<>>), <<>>)

\* the attributes of a top-level element with this id
Attribs(id) ==
    [id |-> id, user |-> <<"u">>, uid |-> <<"9">>, version |-> <<"2">>,
     lat |-> <<"4", "1">>, lon |-> <<"-", "8">>, timestamp |-> <<"T">>,
     changeset |-> <<"5">>]

\* a parsed top-level element: its tag name, attributes, tag children (k, v),
\* nd children (ref), and whether the record shaped from it passes the schema
Element(tag, id, tgs, nds, valid) ==
    [tag |-> tag, attrib |-> Attribs(id), tags |-> tgs, nds |-> nds, valid |-> valid]

Tag(k, v) == [k |-> k, v |-> v]

\* the keys of the tag children: every str of colons, dots and the digit 1 up
\* to MaxKeyLen, and some keys of the map
KeyAlphabet == {"1", ":", "."}
NAME_KEY == <<"n", "a", "m", "e">>
ADDR_STREET_NAME ==
    <<"a", "d", "d", "r", ":", "s", "t", "r", "e", "e", "t", ":", "n", "a", "m", "e">>
ADDR_DOT_STREET == <<"a", "d", "d", "r", ".", "s", "t", "r", "e", "e", "t">>
ShapeKeys ==
    SeqsUpTo(KeyAlphabet, MaxKeyLen)
        \cup {URL_KEY, NAME_KEY, ADDR_STREET_NAME, ADDR_DOT_STREET}

\* the values of the tag children: empty, an url with and one without
\* "http://", a phone number
PHONE_VALUE == <<"0", "9", "1", "1", "5">>
HTTP_EX_COM == HTTP \o EX_COM
ShapeValues == {<<>>, EX_COM, HTTP_EX_COM, PHONE_VALUE}

ShapeIds == {<<"1">>}
Refs == {<<"7">>, <<"8">>}

ShapeTagLists == SeqsUpTo({Tag(k, v) : k \in ShapeKeys, v \in ShapeValues}, MaxTags)

NdLists == SeqsUpTo(Refs, MaxNds)

\* the elements handed to shape_element: a node or a relation has no nd child
IsShapeElement(t, nds) == t = "way" \/ nds = <<>>

-----------------------------------------------------------------------------
(* process_map and get_element *)

\* the text of each column name
FieldText ==
    [id |-> <<"i", "d">>, lat |-> <<"l", "a", "t">>, lon |-> <<"l", "o", "n">>,
     user |-> <<"u", "s", "e", "r">>, uid |-> <<"u", "i", "d">>,
     version |-> <<"v", "e", "r", "s", "i", "o", "n">>,
     changeset |-> <<"c", "h", "a", "n", "g", "e", "s", "e", "t">>,
     timestamp |-> <<"t", "i", "m", "e", "s", "t", "a", "m", "p">>,
     key |-> <<"k", "e", "y">>, value |-> <<"v", "a", "l", "u", "e">>,
     type |-> <<"t", "y", "p", "e">>,
     node_id |-> <<"n", "o", "d", "e", "_", "i", "d">>,
     position |-> <<"p", "o", "s", "i", "t", "i", "o", "n">>]

\* DictWriter.writeheader: the row of the column names
header_row(fields) == [i \in 1..Len(fields) |-> FieldText[fields[i]]]

\* the csv writer writes None as the empty field
csv_cell(v) == IF v = NoneVal THEN <<>> ELSE v

\* DictWriter.writerow: the values of the dict in the order of the columns
csv_row(fields, d) == [i \in 1..Len(fields) |-> csv_cell(d[fields[i]])]

\* DictWriter.writerows
csv_rows(fields, ds) == [i \in 1..Len(ds) |-> csv_row(fields, ds[i])]

\* the five files, opened for writing: empty
EmptyTables ==
    [nodes |-> <<>>, nodes_tags |-> <<>>, ways |-> <<>>, ways_nodes |-> <<>>,
     ways_tags |-> <<>>]

\* lines 366-370: writeheader on the five writers
write_headers(t) ==
    [nodes |-> Append(t.nodes, header_row(NODE_FIELDS)),
     nodes_tags |-> Append(t.nodes_tags, header_row(NODE_TAGS_FIELDS)),
     ways |-> Append(t.ways, header_row(WAY_FIELDS)),
     ways_nodes |-> Append(t.ways_nodes, header_row(WAY_NODES_FIELDS)),
     ways_tags |-> Append(t.ways_tags, header_row(WAY_TAGS_FIELDS))]

\* lines 381-383: the rows of a shaped node
write_node(t, r) ==
    [t EXCEPT !.nodes = Append(@, csv_row(NODE_FIELDS, r.node)),
              !.nodes_tags = @ \o csv_rows(NODE_TAGS_FIELDS, r.node_tags)]

\* a write_way that puts the tag rows of a way in the tag table of the nodes
write_way_into_nodes_tags(t, r) ==
    [t EXCEPT !.ways = Append(@, csv_row(WAY_FIELDS, r.way)),
              !.ways_nodes = @ \o csv_rows(WAY_NODES_FIELDS, r.way_nodes),
              !.nodes_tags = @ \o csv_rows(WAY_TAGS_FIELDS, r.way_tags)]

\* lines 384-387: the rows of a shaped way
write_way(t, r) ==
    [t EXCEPT !.ways = Append(@, csv_row(WAY_FIELDS, r.way)),
              !.ways_nodes = @ \o csv_rows(WAY_NODES_FIELDS, r.way_nodes),
              !.ways_tags = @ \o csv_rows(WAY_TAGS_FIELDS, r.way_tags)]

\* lines 381-387: element.tag decides the writers
write_shaped(t, elem, r) ==
    IF elem.tag = "node" THEN write_node(t, r)
    ELSE IF elem.tag = "way" THEN write_way(t, r)
    ELSE t

\* the tags argument process_map gives get_element (line 374)
PROCESS_TAGS == {"node", "way"}

\* validator.validate(element, schema) is True: decided by the schema on the
\* content of the element
validates(elem, r) == elem.valid

\* the top-level elements of the documents: a node with no tag, a plain tag,
\* or a tag whose key is the id of the node and whose value is empty; a way
\* with or without a tag and nd children; a relation
NODE_ID == <<"1">>
WAY_ID == <<"2">>
RELATION_ID == <<"3">>
DocElements ==
    {Element("node", NODE_ID, tgs, <<>>, valid) :
        tgs \in {<<>>, <<Tag(NAME_KEY, EX_COM)>>, <<Tag(NODE_ID, <<>>)>>},
        valid \in BOOLEAN}
    \cup
    {Element("way", WAY_ID, tgs, nds, valid) :
        tgs \in {<<>>, <<Tag(ADDR_STREET_NAME, EX_COM)>>},
        nds \in {<<>>, <<<<"7">>, <<"8">>>>},
        valid \in BOOLEAN}
    \cup
    {Element("relation", RELATION_ID, <<>>, <<>>, TRUE)}

Init ==
    /\ validate \in BOOLEAN
    /\ pc = "start"
    /\ parsed = <<>>
    /\ root = <<>>
    /\ cur = <<>>
    /\ tables = EmptyTables
    /\ err = "none"
    /\ el = <<>> /\ shaped = Pending
    /\ phone_number = <<>> /\ cleaned = Pending /\ recleaned = Pending
    /\ url = <<>> /\ better_url = Pending

\* process_map lines 354-372: the files are opened and the headers written
WriteHeaders ==
    /\ pc = "start"
    /\ tables' = write_headers(tables)
    /\ pc' = "parse"
    /\ UNCHANGED <<validate, parsed, root, cur, err, shapeVars, phoneVars, urlVars>>

\* get_element lines 250-251: the end event of a top-level element whose tag
\* is not asked for; it stays under the root
ParseSkipped(e) ==
    /\ pc = "parse"
    /\ Len(parsed) < MaxElems
    /\ e.tag \notin PROCESS_TAGS
    /\ parsed' = Append(parsed, e)
    /\ root' = Append(root, e)
    /\ UNCHANGED <<validate, pc, cur, tables, err, shapeVars, phoneVars, urlVars>>

\* get_element lines 250-252: the end event of a node or a way; it is yielded
ParseYield(e) ==
    /\ pc = "parse"
    /\ Len(parsed) < MaxElems
    /\ e.tag \in PROCESS_TAGS
    /\ parsed' = Append(parsed, e)
    /\ root' = Append(root, e)
    /\ cur' = e
    /\ pc' = "body"
    /\ UNCHANGED <<validate, tables, err, shapeVars, phoneVars, urlVars>>

\* a loop body that skips an element failing validation and goes on
shape_validate_write_skipping(r) ==
    IF r.kind = "raise"
    THEN pc' = "aborted" /\ err' = "IndexError" /\ UNCHANGED tables
    ELSE IF r.kind = "none"
    THEN pc' = "resume" /\ UNCHANGED <<tables, err>>
    ELSE IF validate /\ ~validates(cur, r)
    THEN pc' = "resume" /\ UNCHANGED <<tables, err>>
    ELSE /\ tables' = write_shaped(tables, cur, r)
         /\ pc' = "resume"
         /\ UNCHANGED err

\* lines 375-387 with r what shape_element came to: an exception in it, or
\* from validate_element, leaves the loop and the function; `if el:` skips None
shape_validate_write(r) ==
    IF r.kind = "raise"
    THEN pc' = "aborted" /\ err' = "IndexError" /\ UNCHANGED tables
    ELSE IF r.kind = "none"
    THEN pc' = "resume" /\ UNCHANGED <<tables, err>>
    ELSE IF validate /\ ~validates(cur, r)
    THEN pc' = "aborted" /\ err' = "validation" /\ UNCHANGED tables
    ELSE /\ tables' = write_shaped(tables, cur, r)
         /\ pc' = "resume"
         /\ UNCHANGED err

\* process_map lines 375-387: the body of the loop, on the element yielded
LoopBody ==
    /\ pc = "body"
    /\ shape_validate_write(shape_element(cur))
    /\ UNCHANGED <<validate, parsed, root, cur, shapeVars, phoneVars, urlVars>>

\* get_element line 253: the generator is resumed and clears the root
Resume ==
    /\ pc = "resume"
    /\ root' = <<>>
    /\ pc' = "parse"
    /\ UNCHANGED <<validate, parsed, cur, tables, err, shapeVars, phoneVars, urlVars>>

\* the document ends: the loop of process_map ends and the files are closed
EndOfDocument ==
    /\ pc = "parse"
    /\ pc' = "done"
    /\ UNCHANGED <<validate, parsed, root, cur, tables, err, shapeVars, phoneVars, urlVars>>

Next ==
    \/ WriteHeaders
    \/ \E e \in DocElements : ParseSkipped(e)
    \/ \E e \in DocElements : ParseYield(e)
    \/ LoopBody
    \/ Resume
    \/ EndOfDocument

Spec == Init /\ [][Next]_vars

-----------------------------------------------------------------------------
(* The specification of clean_url applied to an argument *)

InitUrl ==
    /\ \E p \in SeqsUpTo(UrlFrags, MaxUrlFrags) : url = Concat(p)
    /\ better_url = Pending
    /\ validate = FALSE /\ pc = "idle" /\ parsed = <<>> /\ root = <<>>
    /\ cur = <<>> /\ tables = <<>> /\ err = "none"
    /\ el = <<>> /\ shaped = Pending
    /\ phone_number = <<>> /\ cleaned = Pending /\ recleaned = Pending

\* better_url = clean_url(url), as shape_element calls it on the value of a tag
CallCleanUrl ==
    /\ better_url = Pending
    /\ better_url' = clean_url(url)
    /\ UNCHANGED <<url, pipelineVars, shapeVars, phoneVars>>

NextUrl == CallCleanUrl

SpecUrl == InitUrl /\ [][NextUrl]_vars

-----------------------------------------------------------------------------
(* The specification of clean_phone_number applied to an argument, and then
   to its own result *)

InitPhone ==
    /\ \E p \in SeqsUpTo(PhoneFrags, MaxPhoneFrags) : phone_number = Concat(p)
    /\ cleaned = Pending /\ recleaned = Pending
    /\ validate = FALSE /\ pc = "idle" /\ parsed = <<>> /\ root = <<>>
    /\ cur = <<>> /\ tables = <<>> /\ err = "none"
    /\ el = <<>> /\ shaped = Pending
    /\ url = <<>> /\ better_url = Pending

\* cleaned = clean_phone_number(phone_number), as shape_element calls it on the
\* value of a tag
CallCleanPhone ==
    /\ cleaned = Pending
    /\ cleaned' = clean_phone_number(phone_number)
    /\ UNCHANGED <<phone_number, recleaned, pipelineVars, shapeVars, urlVars>>

\* recleaned = clean_phone_number(cleaned), when the first call returned a str
CallCleanPhoneAgain ==
    /\ cleaned.kind = "value"
    /\ recleaned = Pending
    /\ recleaned' = clean_phone_number(cleaned.val)
    /\ UNCHANGED <<phone_number, cleaned, pipelineVars, shapeVars, urlVars>>

NextPhone == CallCleanPhone \/ CallCleanPhoneAgain

SpecPhone == InitPhone /\ [][NextPhone]_vars

-----------------------------------------------------------------------------
(* The specification of shape_element applied to an element *)

InitShape ==
    /\ \E t \in {"node", "way", "relation"}, id \in ShapeIds,
          tgs \in ShapeTagLists, nds \in NdLists :
            /\ IsShapeElement(t, nds)
            /\ el = Element(t, id, tgs, nds, TRUE)
    /\ shaped = Pending
    /\ validate = FALSE /\ pc = "idle" /\ parsed = <<>> /\ root = <<>>
    /\ cur = <<>> /\ tables = <<>> /\ err = "none"
    /\ phone_number = <<>> /\ cleaned = Pending /\ recleaned = Pending
    /\ url = <<>> /\ better_url = Pending

\* shaped = shape_element(el)
CallShapeElement ==
    /\ shaped = Pending
    /\ shaped' = shape_element(el)
    /\ UNCHANGED <<el, pipelineVars, phoneVars, urlVars>>

NextShape == CallShapeElement

SpecShape == InitShape /\ [][NextShape]_vars

-----------------------------------------------------------------------------
(* Claims about process_map and get_element (Spec) *)

TableNames == {"nodes", "nodes_tags", "ways", "ways_nodes", "ways_tags"}

IsPrefix(a, b) == Len(a) <= Len(b) /\ SubSeq(b, 1, Len(a)) = a

\* the tables after the headers and the rows of these elements, each shaped
\* and written in turn
RECURSIVE TablesAfter(_, _)
TablesAfter(t, elems) ==
    IF Len(elems) = 0 THEN t
    ELSE LET r == shape_element(Head(elems))
         IN  TablesAfter(IF r.kind \in {"node", "way"}
                         THEN write_shaped(t, Head(elems), r) ELSE t,
                         Tail(elems))

\* the record shaped from this element fails the schema
FailsValidation(e) ==
    /\ e.tag \in PROCESS_TAGS
    /\ shape_element(e).kind \in {"node", "way"}
    /\ ~e.valid

\* C8: with validate = True, an element whose shaped record fails validation
\* is the last one parsed: the run aborts on it with the validation error,
\* and the tables hold the headers and the rows of the elements before it,
\* no row of it and none of a later element.
C8_ValidationFailureAborts ==
    validate =>
        \A i \in 1..Len(parsed) :
            FailsValidation(parsed[i]) =>
                /\ i = Len(parsed)
                /\ pc = "body" \/ (pc = "aborted" /\ err = "validation")
                /\ tables = TablesAfter(write_headers(EmptyTables),
                                        SubSeq(parsed, 1, i - 1))

\* C8 witness: a run with validate = True has aborted on the validation of
\* its second or later element, after rows of a node were written
C8_Witness ==
    /\ validate
    /\ pc = "aborted"
    /\ err = "validation"
    /\ Len(parsed) >= 2
    /\ Len(tables.nodes) >= 2

\* the tables an element of this tag may append to
TablesOfTag(tag) ==
    IF tag = "node" THEN {"nodes", "nodes_tags"}
    ELSE IF tag = "way" THEN {"ways", "ways_nodes", "ways_tags"}
    ELSE {}

\* before the headers are written every table is empty; from then on the
\* first row of every table is its header
HeaderFirst ==
    IF pc = "start" THEN tables = EmptyTables
    ELSE /\ Len(tables.nodes) >= 1 /\ tables.nodes[1] = header_row(NODE_FIELDS)
         /\ Len(tables.nodes_tags) >= 1
         /\ tables.nodes_tags[1] = header_row(NODE_TAGS_FIELDS)
         /\ Len(tables.ways) >= 1 /\ tables.ways[1] = header_row(WAY_FIELDS)
         /\ Len(tables.ways_nodes) >= 1
         /\ tables.ways_nodes[1] = header_row(WAY_NODES_FIELDS)
         /\ Len(tables.ways_tags) >= 1
         /\ tables.ways_tags[1] = header_row(WAY_TAGS_FIELDS)

\* a step only appends to a table; a table grows either by its header, on
\* the empty table, or in the loop body of the element just parsed, by rows
\* that carry the id of that element in a table of its kind
AppendOnlyByKind ==
    \A n \in TableNames :
        /\ IsPrefix(tables[n], tables'[n])
        /\ tables'[n] # tables[n] =>
            \/ pc = "start" /\ tables[n] = <<>> /\ Len(tables'[n]) = 1
            \/ /\ pc = "body"
               /\ cur = parsed[Len(parsed)]
               /\ n \in TablesOfTag(cur.tag)
               /\ \A i \in (Len(tables[n]) + 1)..Len(tables'[n]) :
                    tables'[n][i][1] = cur.attrib.id

\* C9: each of the five tables is append-only and starts with its header,
\* written before any data row; rows are appended as their element is
\* parsed; a node appends only to nodes and nodes_tags, a way only to ways,
\* ways_nodes and ways_tags, any other top-level element to none.
C9_AppendOnlyTables == []HeaderFirst /\ [][AppendOnlyByKind]_vars

\* C9 witness: rows of a node and of a way with a tag are written and a
\* relation was parsed
C9_Witness ==
    /\ Len(tables.nodes) >= 2
    /\ Len(tables.ways) >= 2
    /\ Len(tables.ways_tags) >= 2
    /\ \E i \in 1..Len(parsed) : parsed[i].tag = "relation"

\* C10: at every point at most one closed top-level element is held under
\* the root.
C10_AtMostOneRetained == Len(root) <= 1

-----------------------------------------------------------------------------
(* Claims about shape_element (SpecShape) *)

\* the tag list shape_element returned for a node or a way
ReturnedTags == IF shaped.kind = "node" THEN shaped.node_tags ELSE shaped.way_tags

ShapedNodeOrWay == shaped.kind \in {"node", "way"}

\* k[k.index(':') + 1:], the text after the first colon
RECURSIVE AfterFirstColon(_)
AfterFirstColon(k) ==
    IF Len(k) = 0 THEN <<>>
    ELSE IF Head(k) = ":" THEN Tail(k)
    ELSE AfterFirstColon(Tail(k))

\* the tag children whose key has no problem character, in document order
RECURSIVE WithoutProblemKeys(_)
WithoutProblemKeys(tgs) ==
    IF Len(tgs) = 0 THEN <<>>
    ELSE IF problem_chars_search(Head(tgs).k) THEN WithoutProblemKeys(Tail(tgs))
    ELSE <<Head(tgs)>> \o WithoutProblemKeys(Tail(tgs))

\* C1: the tag list shape_element returns for a node or a way holds no row
\* for a tag whose key has a problem character, and exactly one row for each
\* other tag, in document order.
C1_ProblemKeysDropped ==
    ShapedNodeOrWay =>
        LET kept == WithoutProblemKeys(el.tags)
        IN  /\ Len(ReturnedTags) = Len(kept)
            /\ \A i \in 1..Len(kept) :
                /\ ReturnedTags[i].id = el.attrib.id
                /\ ReturnedTags[i].value = kept[i].v

\* C2: for every tag whose key contains a colon (and no problem character)
\* the returned tag list holds its row with type the text before the first
\* colon and key the text after it, further colons kept.
C2_ColonKeySplit ==
    ShapedNodeOrWay =>
        \A i \in 1..Len(el.tags) :
            LET tg == el.tags[i]
            IN  (Contains(tg.k, COLON) /\ ~problem_chars_search(tg.k)) =>
                    \E j \in 1..Len(ReturnedTags) :
                        ReturnedTags[j] =
                            [id |-> el.attrib.id, key |-> AfterFirstColon(tg.k),
                             value |-> tg.v, type |-> split_colon_first(tg.k)]

\* C3: for a way, shape_element returns one way_nodes row per nd child, in
\* document order: row i has the id of the way, the ref of nd child i as
\* node_id and i, counted from 0, as position.
C3_WayNodesInOrder ==
    shaped.kind = "way" =>
        /\ Len(shaped.way_nodes) = Len(el.nds)
        /\ \A i \in 1..Len(el.nds) :
            shaped.way_nodes[i] =
                [id |-> el.attrib.id, node_id |-> el.nds[i], position |-> i - 1]

\* C4: for every tag whose key contains no colon (and no problem character)
\* the returned tag list holds its row with type "regular" and key the raw
\* key, whatever the id of the element and the value of the tag.
C4_PlainKeyRegular ==
    ShapedNodeOrWay =>
        \A i \in 1..Len(el.tags) :
            LET tg == el.tags[i]
            IN  (~Contains(tg.k, COLON) /\ ~problem_chars_search(tg.k)) =>
                    \E j \in 1..Len(ReturnedTags) :
                        ReturnedTags[j] =
                            [id |-> el.attrib.id, key |-> tg.k,
                             value |-> tg.v, type |-> REGULAR]

\* the tag children of el whose key is 'url' and on whose value clean_url
\* comes to a result of this kind
UrlTags(kind) ==
    {i \in 1..Len(el.tags) :
        el.tags[i].k = URL_KEY /\ clean_url(el.tags[i].v).kind = kind}

\* C11: for every tag whose key is exactly 'url' the row shape_element
\* returns has as key what clean_url returned for the value of the tag, not
\* the word 'url'; when clean_url returned nothing the row keeps the value
\* of the tag; and shape_element does not raise on an element whose tags all
\* have the key 'url'.
C11_UrlKeyIsCleanedUrl ==
    /\ (shaped.kind = "raise") => \E i \in 1..Len(el.tags) : el.tags[i].k # URL_KEY
    /\ ShapedNodeOrWay =>
        /\ \A i \in UrlTags("value") :
            \E j \in 1..Len(ReturnedTags) :
                ReturnedTags[j] =
                    [id |-> el.attrib.id, key |-> clean_url(el.tags[i].v).val,
                     value |-> el.tags[i].v, type |-> REGULAR]
        /\ \A i \in UrlTags("none") :
            \E j \in 1..Len(ReturnedTags) :
                /\ ReturnedTags[j].id = el.attrib.id
                /\ ReturnedTags[j].value = el.tags[i].v

-----------------------------------------------------------------------------
(* Claims about clean_phone_number (SpecPhone) *)

\* the acceptance pattern ^(\+\d{3}|\d{3,5}) \d
WellFormedPhone(s) ==
    \/ /\ Len(s) >= 6
       /\ s[1] = "+"
       /\ \A i \in 2..4 : s[i] \in Digits
       /\ s[5] = " "
       /\ s[6] \in Digits
    \/ \E n \in 3..5 :
        /\ Len(s) >= n + 2
        /\ \A i \in 1..n : s[i] \in Digits
        /\ s[n + 1] = " "
        /\ s[n + 2] \in Digits

\* the argument is empty, or nothing of it is left after steps 1-4: every
\* character of it is one that step 1 turns into a space, or is a space
EmptyAfterCleaning(s) ==
    \A i \in 1..Len(s) : s[i] \notin (Digits \cup {"+", "-", "\t"})

\* C5: clean_phone_number is idempotent on well-formed input: for every
\* argument matching ^(\+\d{3}|\d{3,5}) \d the first call returns a str and
\* the call on that str returns the same str.
C5_IdempotentOnWellFormed ==
    (WellFormedPhone(phone_number) /\ cleaned # Pending) =>
        /\ cleaned.kind = "value"
        /\ (recleaned # Pending => recleaned = cleaned)

\* C6: on an argument that is empty, or becomes empty by steps 1-4,
\* clean_phone_number neither raises nor returns None: it returns the empty
\* str.
C6_EmptyYieldsEmptyString ==
    (EmptyAfterCleaning(phone_number) /\ cleaned # Pending) =>
        cleaned = Returned(<<>>)

\* the argument after steps 1-4, and then with every space removed
AfterStep4 == clean_steps_1_to_4(phone_number)
SpaceStripped == ReplaceAll(AfterStep4.val, SPACE, <<>>)

\* the call reaches the insertions of step 5: steps 1-4 left a str that is
\* not empty and holds no entry of the fixed table
ReachesInsertions ==
    /\ AfterStep4.kind = "value"
    /\ ~AnyIn(prefixes_fixed, AfterStep4.val)
    /\ Len(SpaceStripped) > 0

\* s starts with an entry of the table
StartsWithAny(table, s) == \E code \in table : StartsWith(s, code)

\* s with a space after its first n characters
SpaceAfter(s, n) == Take(s, n) \o SPACE \o Drop(s, n)

\* the insertions as the claim states them, on the space-stripped str: the
\* tables looked up at the start only, the national ones on a number without
\* "+" only, the international 4-digit one only when the 3-digit one has no
\* match
InsertAtStartOnly(s) ==
    IF s[1] = "+"
    THEN IF StartsWithAny(prefixes_international_3_digits, Drop(s, 3))
         THEN SpaceAfter(SpaceAfter(s, 3), 7)
         ELSE IF StartsWithAny(prefixes_international_4_digits, Drop(s, 3))
         THEN SpaceAfter(SpaceAfter(s, 3), 8)
         ELSE SpaceAfter(s, 3)
    ELSE IF StartsWithAny(prefixes_4_digits, s) THEN SpaceAfter(s, 4)
    ELSE IF StartsWithAny(prefixes_5_digits, s) THEN SpaceAfter(s, 5)
    ELSE s

\* C12: in step 5 of clean_phone_number the prefix tables are matched at the
\* start of the space-stripped str only, and the "+" branch and the national
\* branch exclude each other: a number without "+" gets a space after
\* position 4 (5) iff it starts with a national 4-digit (5-digit) entry; a
\* number with "+" gets a space after the country code, then one after
\* position 7 iff the text after the country code starts with an
\* international 3-digit entry, else after position 8 iff it starts with an
\* international 4-digit entry, and no national insertion; an entry
\* elsewhere in the number inserts nothing.  What the call returns is that
\* str after the replacement of "0049" and the deletion of a "-" after a
\* space.
C12_PrefixesMatchedAtStart ==
    (ReachesInsertions /\ cleaned # Pending) =>
        cleaned =
            Returned(drop_minus_after_space(replace_0049(
                InsertAtStartOnly(SpaceStripped))))

-----------------------------------------------------------------------------
(* Claims about clean_url (SpecUrl) *)

\* C7: clean_url returns a value exactly when its argument does not contain
\* "http://": then "http://" + url when the url contains "www." and
\* "http://www." + url otherwise; for an argument containing "http://" it
\* returns None.
C7_ValueIffNoHttp ==
    better_url # Pending =>
        IF Contains(url, HTTP)
        THEN better_url = ReturnedNone
        ELSE better_url =
                Returned(IF Contains(url, WWW) THEN HTTP \o url
                         ELSE HTTP \o WWW \o url)

\* C7 witness: clean_url("ex.com") has returned "http://www.ex.com"
C7_Witness ==
    /\ url = EX_COM
    /\ better_url = Returned(HTTP \o WWW \o EX_COM)

=============================================================================
